---- MODULE Spec2Model ----
(***************************************************************************)
(* sleep-utils: parse_sleep_duration (src/src/duration_parser.rs) and      *)
(* smart_sleep / SleepInput (src/src/smart_sleep.rs).                      *)
(*                                                                         *)
(* Text is a sequence of one-character strings.  Integers of the program   *)
(* are 64 bits wide (isize, u64) and f64 carries 53 significant bits, so   *)
(* every program number is a decimal numeral here: a sequence of digits    *)
(* 0..9, most significant first, without leading zeros; zero is << >>.     *)
(***************************************************************************)
EXTENDS Integers, Sequences, FiniteSets, TLC

VARIABLES overflow_checks, op, arg, pc, sleep_input, duration, ret, slept

vars == <<overflow_checks, op, arg, pc, sleep_input, duration, ret, slept>>

-----------------------------------------------------------------------------
(* Decimal numerals.                                                       *)

RECURSIVE StripZeros(_)
StripZeros(d) ==
    IF d = << >> THEN << >>
    ELSE IF Head(d) = 0 THEN StripZeros(Tail(d)) ELSE d

RECURSIVE NumOfInt(_)
NumOfInt(n) == IF n = 0 THEN << >> ELSE NumOfInt(n \div 10) \o <<n % 10>>

\* The i-th digit from the right (1 is the units digit), 0 beyond the numeral.
DigitR(a, i) == IF i <= Len(a) THEN a[Len(a) + 1 - i] ELSE 0

RECURSIVE LexLess(_, _)
LexLess(a, b) ==
    IF a = << >> THEN FALSE
    ELSE IF Head(a) # Head(b) THEN Head(a) < Head(b)
    ELSE LexLess(Tail(a), Tail(b))

Less(a, b) == Len(a) < Len(b) \/ (Len(a) = Len(b) /\ LexLess(a, b))

Leq(a, b) == ~Less(b, a)

\* The digit recursions below build their result units digit first, so that
\* each carry is computed before the next digit is visited.
Reverse(s) == [i \in 1..Len(s) |-> s[Len(s) + 1 - i]]

RECURSIVE AddRec(_, _, _, _)
AddRec(a, b, i, c) ==
    IF i > Len(a) /\ i > Len(b)
    THEN (IF c = 0 THEN << >> ELSE <<c>>)
    ELSE LET s == DigitR(a, i) + DigitR(b, i) + c
         IN  <<s % 10>> \o AddRec(a, b, i + 1, s \div 10)

Add(a, b) == Reverse(AddRec(a, b, 1, 0))

\* a - b for b <= a.
RECURSIVE SubRec(_, _, _, _)
SubRec(a, b, i, borrow) ==
    IF i > Len(a) THEN << >>
    ELSE LET s == DigitR(a, i) - DigitR(b, i) - borrow
         IN  IF s < 0 THEN <<s + 10>> \o SubRec(a, b, i + 1, 1)
             ELSE <<s>> \o SubRec(a, b, i + 1, 0)

Sub(a, b) == StripZeros(Reverse(SubRec(a, b, 1, 0)))

\* a * k for a machine-small k (every k used is at most 3600000).
RECURSIVE MulRec(_, _, _, _)
MulRec(a, k, i, c) ==
    IF i > Len(a) THEN Reverse(NumOfInt(c))
    ELSE LET s == DigitR(a, i) * k + c
         IN  <<s % 10>> \o MulRec(a, k, i + 1, s \div 10)

MulSmall(a, k) == StripZeros(Reverse(MulRec(a, k, 1, 0)))

RECURSIVE HalfRec(_, _, _)
HalfRec(a, i, r) ==
    IF i > Len(a) THEN << >>
    ELSE LET cur == r * 10 + a[i]
         IN  <<cur \div 2>> \o HalfRec(a, i + 1, cur % 2)

Half(a) == StripZeros(HalfRec(a, 1, 0))

\* a div k for a machine-small k.
RECURSIVE DivRec(_, _, _, _)
DivRec(a, k, i, r) ==
    IF i > Len(a) THEN << >>
    ELSE LET cur == r * 10 + a[i]
         IN  <<cur \div k>> \o DivRec(a, k, i + 1, cur % k)

DivSmall(a, k) == StripZeros(DivRec(a, k, 1, 0))

Odd(a) == a # << >> /\ a[Len(a)] % 2 = 1

RECURSIVE ReduceBelow(_, _)
ReduceBelow(r, m) == IF Less(r, m) THEN r ELSE ReduceBelow(Sub(r, m), m)

\* a mod m by long division; the running remainder r stays below m.
RECURSIVE ModRec(_, _, _, _)
ModRec(a, m, i, r) ==
    IF i > Len(a) \/ Len(r) > Len(m) THEN r
    ELSE ModRec(a, m, i + 1, ReduceBelow(StripZeros(r \o <<a[i]>>), m))

Mod(a, m) == ModRec(a, m, 1, << >>)

-----------------------------------------------------------------------------
(* Machine ranges.                                                         *)

\* isize::MAX = 2^63 - 1 (64-bit target) and its negative counterpart's magnitude.
ISIZE_MAX == <<9, 2, 2, 3, 3, 7, 2, 0, 3, 6, 8, 5, 4, 7, 7, 5, 8, 0, 7>>

ISIZE_MIN_MAG == <<9, 2, 2, 3, 3, 7, 2, 0, 3, 6, 8, 5, 4, 7, 7, 5, 8, 0, 8>>

\* u64::MAX = 2^64 - 1, and 2^64.
U64_MAX == <<1, 8, 4, 4, 6, 7, 4, 4, 0, 7, 3, 7, 0, 9, 5, 5, 1, 6, 1, 5>>

TwoPow64 == <<1, 8, 4, 4, 6, 7, 4, 4, 0, 7, 3, 7, 0, 9, 5, 5, 1, 6, 1, 6>>

\* f64 has a 53-bit significand.
TwoPow53 == <<9, 0, 0, 7, 1, 9, 9, 2, 5, 4, 7, 4, 0, 9, 9, 2>>

TwoPow54 == <<1, 8, 0, 1, 4, 3, 9, 8, 5, 0, 9, 4, 8, 1, 9, 8, 4>>

TwoPow74 == <<1, 8, 8, 8, 9, 4, 6, 5, 9, 3, 1, 4, 7, 8, 5, 8, 0, 8, 5, 4, 7, 8, 4>>

-----------------------------------------------------------------------------
(* f64: a finite non-negative value is [m, e], standing for m * 2^e with   *)
(* m <= 2^53.  Exponent overflow and subnormals need numerals of more than *)
(* 300 digits and are outside every input set below.                       *)

\* Round the exact value (N + sticky fraction) * 2^e to nearest, ties to even.
\* (Bits are dropped 20 at a time, 2^20 = 1048576, while N >= 2^74.)
RECURSIVE RoundBits(_, _, _)
RoundBits(N, e, sticky) ==
    IF Less(N, TwoPow53) THEN [m |-> N, e |-> e]
    ELSE IF Less(N, TwoPow54)
    THEN LET q  == Half(N)
             up == Odd(N) /\ (sticky \/ Odd(q))
         IN  [m |-> IF up THEN Add(q, <<1>>) ELSE q, e |-> e + 1]
    ELSE IF Less(N, TwoPow74)
    THEN (IF sticky \/ Odd(N) THEN RoundBits(Half(N), e + 1, TRUE)
          ELSE RoundBits(Half(N), e + 1, FALSE))
    ELSE LET q == DivSmall(N, 1048576)
         IN  IF sticky \/ MulSmall(q, 1048576) # N THEN RoundBits(q, e + 20, TRUE)
             ELSE RoundBits(q, e + 20, FALSE)

\* The first Len(N) - f digits of N: N div 10^f.
DropLast(N, f) == IF Len(N) <= f THEN << >> ELSE SubSeq(N, 1, Len(N) - f)

\* N mod 10^f # 0.
LowNonZero(N, f) == \E i \in 1..f : DigitR(N, i) # 0

\* Scale N / 10^f by powers of two (2^20 = 1048576 at a time while that stays
\* below 2^53) until its integer part has 54 bits, then round.
RECURSIVE ScaleUp(_, _, _)
ScaleUp(N, f, k) ==
    LET q   == DropLast(N, f)
        big == MulSmall(N, 1048576)
    IN  IF Leq(TwoPow53, q) THEN RoundBits(q, 0 - k, LowNonZero(N, f))
        ELSE IF Less(DropLast(big, f), TwoPow53) THEN ScaleUp(big, f, k + 20)
        ELSE ScaleUp(MulSmall(N, 2), f, k + 1)

\* str::parse::<f64> of a decimal with digits D (the point removed) and f
\* digits after the point: D / 10^f correctly rounded.
F64Parse(D, f) ==
    IF D = << >> THEN [m |-> << >>, e |-> 0]
    ELSE IF f = 0 THEN RoundBits(D, 0, FALSE)
    ELSE ScaleUp(D, f, 0)

\* `x * multiplier` in f64, multiplier one of 1.0, 1000.0, 60_000.0, 3_600_000.0.
F64Mul(x, multiplier) == RoundBits(MulSmall(x.m, multiplier), x.e, FALSE)

RECURSIVE ShiftUpSat(_, _)
ShiftUpSat(N, e) ==
    IF Less(U64_MAX, N) THEN U64_MAX
    ELSE IF e = 0 THEN N
    ELSE ShiftUpSat(MulSmall(N, 2), e - 1)

RECURSIVE ShiftDown(_, _)
ShiftDown(N, k) ==
    IF k = 0 \/ N = << >> THEN N
    ELSE IF k >= 20 THEN ShiftDown(DivSmall(N, 1048576), k - 20)
    ELSE ShiftDown(Half(N), k - 1)

\* `x as u64`: truncation toward zero, saturating at u64::MAX.
F64ToU64(x) == IF x.e >= 0 THEN ShiftUpSat(x.m, x.e) ELSE ShiftDown(x.m, 0 - x.e)

-----------------------------------------------------------------------------
(* Characters and text.  Only ASCII text is drawn as input; the regex      *)
(* classes \d and \s and str::trim also cover non-ASCII digits and spaces. *)

DigitChars == <<"0", "1", "2", "3", "4", "5", "6", "7", "8", "9">>

LowerChars == <<"a", "b", "c", "d", "e", "f", "g", "h", "i", "j", "k", "l", "m", "n", "o", "p", "q", "r", "s", "t", "u", "v", "w", "x", "y", "z">>

UpperChars == <<"A", "B", "C", "D", "E", "F", "G", "H", "I", "J", "K", "L", "M", "N", "O", "P", "Q", "R", "S", "T", "U", "V", "W", "X", "Y", "Z">>

IsDigit(c) == \E i \in 1..10 : DigitChars[i] = c

DigitValue(c) == (CHOOSE i \in 1..10 : DigitChars[i] = c) - 1

IsWhitespace(c) == c \in {" ", "\t", "\n", "\r"}

IsLower(c) == \E i \in 1..26 : LowerChars[i] = c

IsUpper(c) == \E i \in 1..26 : UpperChars[i] = c

\* char::to_lowercase on ASCII.
ToLowerChar(c) ==
    IF IsUpper(c) THEN LowerChars[CHOOSE i \in 1..26 : UpperChars[i] = c] ELSE c

\* str::to_lowercase
ToLowercase(s) == [i \in 1..Len(s) |-> ToLowerChar(s[i])]

\* str::trim
RECURSIVE TrimStart(_)
TrimStart(s) ==
    IF s # << >> /\ IsWhitespace(Head(s)) THEN TrimStart(Tail(s)) ELSE s

RECURSIVE TrimEnd(_)
TrimEnd(s) ==
    IF s # << >> /\ IsWhitespace(s[Len(s)])
    THEN TrimEnd(SubSeq(s, 1, Len(s) - 1)) ELSE s

Trim(s) == TrimEnd(TrimStart(s))

\* The numeral written by a string of ASCII digits.
DigitsToNum(s) == StripZeros([i \in 1..Len(s) |-> DigitValue(s[i])])

AllDigits(s) == \A i \in 1..Len(s) : IsDigit(s[i])

\* The end (exclusive) of the longest run of characters of class `cls`
\* ("d" digits, "s" whitespace, "a" letters of (?i)[a-z], "n" digits and '.')
\* that starts at position p.
InClass(cls, c) ==
    CASE cls = "d" -> IsDigit(c)
      [] cls = "s" -> IsWhitespace(c)
      [] cls = "a" -> IsLower(c) \/ IsUpper(c)
      [] cls = "n" -> IsDigit(c) \/ c = "."

RECURSIVE RunEnd(_, _, _)
RunEnd(s, p, cls) ==
    IF p <= Len(s) /\ InClass(cls, s[p]) THEN RunEnd(s, p + 1, cls) ELSE p

-----------------------------------------------------------------------------
(* Values of the program.                                                  *)

\* std::time::Duration: whole seconds and nanoseconds below one second.
DurationZERO == [secs |-> << >>, nanos |-> 0]

\* Duration::from_millis(millis: u64)
DurationFromMillis(millis) ==
    [secs  |-> DropLast(millis, 3),
     nanos |-> (DigitR(millis, 3) * 100 + DigitR(millis, 2) * 10
                + DigitR(millis, 1)) * 1000000]

\* Duration::is_zero
DurationIsZero(d) == d.secs = << >> /\ d.nanos = 0

Ok(v) == [kind |-> "Ok", value |-> v]

Err(variant, payload) == [kind |-> "Err", error |-> variant, payload |-> payload]

\* The thread unwinds from an arithmetic-overflow panic.
Panic == [kind |-> "Panic"]

\* A parse that reads the digits and drops the sign.
ParseIsizeMagnitude(s) ==
    LET signed == s # << >> /\ Head(s) \in {"+", "-"}
        digits == IF signed THEN Tail(s) ELSE s
        mag    == DigitsToNum(digits)
    IN  IF digits = << >> \/ ~AllDigits(digits) \/ ~Leq(mag, ISIZE_MAX) THEN [ok |-> FALSE]
        ELSE [ok |-> TRUE, neg |-> FALSE, mag |-> mag]

\* str::parse::<isize>: an optional sign, then one or more ASCII digits, the
\* value within isize.  [ok, neg, mag]
ParseIsize(s) ==
    LET signed == s # << >> /\ Head(s) \in {"+", "-"}
        digits == IF signed THEN Tail(s) ELSE s
        neg    == signed /\ Head(s) = "-"
        mag    == DigitsToNum(digits)
    IN  IF digits = << >> \/ ~AllDigits(digits) THEN [ok |-> FALSE]
        ELSE IF neg /\ Leq(mag, ISIZE_MIN_MAG) THEN [ok |-> TRUE, neg |-> mag # << >>, mag |-> mag]
        ELSE IF ~neg /\ Leq(mag, ISIZE_MAX) THEN [ok |-> TRUE, neg |-> FALSE, mag |-> mag]
        ELSE [ok |-> FALSE]

\* str::parse::<u64> of a run of digits.  [ok, mag]
ParseU64(s) ==
    LET mag == DigitsToNum(s)
    IN  IF s # << >> /\ AllDigits(s) /\ Leq(mag, U64_MAX)
        THEN [ok |-> TRUE, mag |-> mag] ELSE [ok |-> FALSE]

\* str::parse::<f64> of a capture of \d*\.?\d+
ParseF64(s) ==
    LET dot  == IF \E i \in 1..Len(s) : s[i] = "."
                THEN CHOOSE i \in 1..Len(s) : s[i] = "." ELSE Len(s) + 1
        ds   == SubSeq(s, 1, dot - 1) \o SubSeq(s, dot + 1, Len(s))
        frac == IF dot > Len(s) THEN 0 ELSE Len(s) - dot
    IN  F64Parse(DigitsToNum(ds), frac)

-----------------------------------------------------------------------------
(* duration_parser.rs                                                      *)

\* The alternations of the unit patterns, as the sets of strings they match.
MillisAlt == \* ms|millis?|milliseconds?
    {<<"m", "s">>,
     <<"m", "i", "l", "l", "i">>,
     <<"m", "i", "l", "l", "i", "s">>,
     <<"m", "i", "l", "l", "i", "s", "e", "c", "o", "n", "d">>,
     <<"m", "i", "l", "l", "i", "s", "e", "c", "o", "n", "d", "s">>}

SecondsAlt == \* s|sec|seconds?
    {<<"s">>,
     <<"s", "e", "c">>,
     <<"s", "e", "c", "o", "n", "d">>,
     <<"s", "e", "c", "o", "n", "d", "s">>}

MinutesAlt == \* m|min|minutes?
    {<<"m">>,
     <<"m", "i", "n">>,
     <<"m", "i", "n", "u", "t", "e">>,
     <<"m", "i", "n", "u", "t", "e", "s">>}

HoursAlt == \* h|hr|hours?
    {<<"h">>,
     <<"h", "r">>,
     <<"h", "o", "u", "r">>,
     <<"h", "o", "u", "r", "s">>}

\* The table with the hour rules carrying the minute multiplier.
SINGLE_PATTERNS_HourAsMinute ==
    << [units |-> MillisAlt,  ws |-> TRUE,  multiplier |-> 1],
       [units |-> SecondsAlt, ws |-> TRUE,  multiplier |-> 1000],
       [units |-> MinutesAlt, ws |-> TRUE,  multiplier |-> 60000],
       [units |-> HoursAlt,   ws |-> TRUE,  multiplier |-> 60000],
       [units |-> {<<"m", "s">>}, ws |-> FALSE, multiplier |-> 1],
       [units |-> {<<"s">>},      ws |-> FALSE, multiplier |-> 1000],
       [units |-> {<<"m">>},      ws |-> FALSE, multiplier |-> 60000],
       [units |-> {<<"h">>},      ws |-> FALSE, multiplier |-> 60000] >>

\* ^(\d+)\s*(<units>)$ with its multiplier; ws is FALSE for the short
\* patterns ^(\d+)(<unit>)$, which have no \s*.
SINGLE_PATTERNS ==
    << [units |-> MillisAlt,  ws |-> TRUE,  multiplier |-> 1],
       [units |-> SecondsAlt, ws |-> TRUE,  multiplier |-> 1000],
       [units |-> MinutesAlt, ws |-> TRUE,  multiplier |-> 60000],
       [units |-> HoursAlt,   ws |-> TRUE,  multiplier |-> 3600000],
       [units |-> {<<"m", "s">>}, ws |-> FALSE, multiplier |-> 1],
       [units |-> {<<"s">>},      ws |-> FALSE, multiplier |-> 1000],
       [units |-> {<<"m">>},      ws |-> FALSE, multiplier |-> 60000],
       [units |-> {<<"h">>},      ws |-> FALSE, multiplier |-> 3600000] >>

\* No fractional rules at all: every text falls through to the scan.
FLOAT_PATTERNS_None == << >>

\* ^(\d*\.?\d+)\s*(<units>)$ and the short ^(\d*\.?\d+)(<unit>)$
FLOAT_PATTERNS ==
    << [units |-> SecondsAlt, ws |-> TRUE,  multiplier |-> 1000],
       [units |-> MinutesAlt, ws |-> TRUE,  multiplier |-> 60000],
       [units |-> {<<"s">>},      ws |-> FALSE, multiplier |-> 1000],
       [units |-> {<<"m">>},      ws |-> FALSE, multiplier |-> 60000] >>

\* \d*\.?\d+ matches a run of digits and '.' that has at most one '.' and
\* ends in a digit.
NumberShape(cls, c1) ==
    /\ c1 # << >>
    /\ IsDigit(c1[Len(c1)])
    /\ cls = "n" => Cardinality({i \in 1..Len(c1) : c1[i] = "."}) <= 1

\* Regex::captures of an anchored pattern: the number (class "d" for \d+, "n"
\* for \d*\.?\d+) is the longest leading run of its class, since what follows
\* it must be whitespace or a letter; then \s*; then the rest of the input is
\* one of the unit strings.  [matched, c1]
CapturesAnchored(input, cls, pat) ==
    LET d    == RunEnd(input, 1, cls)
        w    == RunEnd(input, d, "s")
        c1   == SubSeq(input, 1, d - 1)
        rest == SubSeq(input, w, Len(input))
    IN  IF /\ NumberShape(cls, c1)
           /\ (pat.ws \/ w = d)
           /\ rest \in pat.units
        THEN [matched |-> TRUE, c1 |-> c1]
        ELSE [matched |-> FALSE]

Some(d) == [kind |-> "Some", value |-> d]

None == [kind |-> "None"]

\* The match arms of parse_multiple_units; 0 stands for `_ => continue`.
UnitMultiplier(unit) ==
    IF unit \in MillisAlt THEN 1
    ELSE IF unit \in SecondsAlt THEN 1000
    ELSE IF unit \in MinutesAlt THEN 60000
    ELSE IF unit \in HoursAlt THEN 3600000
    ELSE 0

\* u64 arithmetic: a result past u64::MAX panics when the build checks
\* overflow (debug_assertions) and wraps modulo 2^64 when it does not.
Overflows(n) == Less(U64_MAX, n)

Wrap(n) == Mod(n, TwoPow64)

\* The first match of (?i)(\d+)\s*([a-z]+) at or after position p: leftmost
\* start, each part greedy (giving back a digit or a space never helps the
\* next part to match).  [found, c1, c2, next]
RECURSIVE FindMulti(_, _)
FindMulti(input, p) ==
    IF p > Len(input) THEN [found |-> FALSE]
    ELSE LET d == RunEnd(input, p, "d")
             w == RunEnd(input, d, "s")
             a == RunEnd(input, w, "a")
         IN  IF d > p /\ a > w
             THEN [found |-> TRUE, c1 |-> SubSeq(input, p, d - 1),
                   c2 |-> SubSeq(input, w, a - 1), next |-> a]
             ELSE FindMulti(input, p + 1)

\* The body of `for caps in MULTI_UNIT_PATTERN.captures_iter(input)`.
\* acc = [total_millis, found_any, has_positive_value, panicked]
MultiStep(acc, caps, checks) ==
    LET value      == ParseU64(caps.c1)
        multiplier == UnitMultiplier(ToLowercase(caps.c2))
        product    == MulSmall(value.mag, multiplier)
        sum        == Add(acc.total_millis,
                          IF Overflows(product) THEN Wrap(product) ELSE product)
    IN  IF ~value.ok THEN acc
        ELSE IF multiplier = 0 THEN acc
        ELSE IF checks /\ (Overflows(product) \/ Overflows(sum))
        THEN [acc EXCEPT !.panicked = TRUE]
        ELSE [total_millis       |-> IF Overflows(sum) THEN Wrap(sum) ELSE sum,
              found_any          |-> TRUE,
              has_positive_value |-> acc.has_positive_value \/ value.mag # << >>,
              panicked           |-> FALSE]

RECURSIVE MultiLoop(_, _, _, _)
MultiLoop(input, p, acc, checks) ==
    LET caps == FindMulti(input, p)
    IN  IF acc.panicked \/ ~caps.found THEN acc
        ELSE MultiLoop(input, caps.next, MultiStep(acc, caps, checks), checks)

\* A scan that reports a match only when some run is positive.
parse_multiple_units_PositiveOnly(input, checks) ==
    LET acc == MultiLoop(input, 1,
                   [total_millis |-> << >>, found_any |-> FALSE,
                    has_positive_value |-> FALSE, panicked |-> FALSE], checks)
    IN  IF acc.panicked THEN Panic
        ELSE IF acc.found_any /\ acc.has_positive_value
        THEN Some(DurationFromMillis(acc.total_millis))
        ELSE None

\* fn parse_multiple_units(input) -> Result<Option<Duration>>
parse_multiple_units(input, checks) ==
    LET acc == MultiLoop(input, 1,
                   [total_millis |-> << >>, found_any |-> FALSE,
                    has_positive_value |-> FALSE, panicked |-> FALSE], checks)
    IN  IF acc.panicked THEN Panic
        ELSE IF acc.found_any
        THEN (IF acc.has_positive_value
              THEN Some(DurationFromMillis(acc.total_millis))
              ELSE Some(DurationZERO))
        ELSE None

\* `value as f64` for a non-negative isize.
IsizeAsF64(mag) == RoundBits(mag, 0, FALSE)

\* for (pattern, multiplier) in FLOAT_PATTERNS.iter(), then the multi-unit scan.
RECURSIVE FloatLoop(_, _, _)
FloatLoop(input, i, checks) ==
    IF i > Len(FLOAT_PATTERNS) THEN parse_multiple_units(input, checks)
    ELSE LET pat  == FLOAT_PATTERNS[i]
             caps == CapturesAnchored(input, "n", pat)
             value == ParseF64(caps.c1)
         IN  IF caps.matched
             THEN (IF value.m = << >> THEN Some(DurationZERO)
                   ELSE Some(DurationFromMillis(
                            F64ToU64(F64Mul(value, pat.multiplier)))))
             ELSE FloatLoop(input, i + 1, checks)

\* for (pattern, multiplier) in SINGLE_PATTERNS.iter(), then the float patterns.
RECURSIVE SingleLoop(_, _, _)
SingleLoop(input, i, checks) ==
    IF i > Len(SINGLE_PATTERNS) THEN FloatLoop(input, 1, checks)
    ELSE LET pat  == SINGLE_PATTERNS[i]
             caps == CapturesAnchored(input, "d", pat)
             value == ParseIsize(caps.c1)
         IN  IF caps.matched /\ value.ok
             THEN (IF value.mag = << >> THEN Some(DurationZERO)
                   ELSE Some(DurationFromMillis(
                            F64ToU64(F64Mul(IsizeAsF64(value.mag), pat.multiplier)))))
             ELSE SingleLoop(input, i + 1, checks)

\* fn parse_duration_with_unit(input) -> Result<Option<Duration>>
parse_duration_with_unit(input, checks) == SingleLoop(input, 1, checks)

\* The bare input as the payload.
InvalidFormatMessage_Bare(input) == input

\* format!("Invalid sleep duration format: '{}'", input)
InvalidFormatMessage(input) ==
    <<"I", "n", "v", "a", "l", "i", "d", " ", "s", "l", "e", "e", "p", " ", "d", "u", "r", "a", "t", "i", "o", "n", " ", "f", "o", "r", "m", "a", "t", ":", " ", "'">>
    \o input \o <<"'">>

\* pub fn parse_sleep_duration(input: &str) -> Result<Duration>
parse_sleep_duration(text, checks) ==
    LET input  == ToLowercase(Trim(text))
        millis == ParseIsize(input)
        parsed == parse_duration_with_unit(input, checks)
    IN  IF input = << >> THEN Ok(DurationZERO)
        ELSE IF millis.ok
        THEN (IF millis.neg \/ millis.mag = << >> THEN Ok(DurationZERO)
              ELSE Ok(DurationFromMillis(millis.mag)))
        ELSE IF parsed.kind = "Panic" THEN Panic
        ELSE IF parsed.kind = "Some" THEN Ok(parsed.value)
        ELSE Err("InvalidDuration", InvalidFormatMessage(input))

-----------------------------------------------------------------------------
(* smart_sleep.rs                                                          *)

\* A signed machine integer is [neg, mag]; zero is [neg |-> FALSE, mag |-> << >>].
SignedInt(neg, mag) == [neg |-> neg, mag |-> mag]

IsPositive(n) == ~n.neg /\ n.mag # << >>

\* enum SleepInput { Number(isize), Text(String), Duration(Duration) }
Number(n) == [variant |-> "Number", n |-> n]

Text(t) == [variant |-> "Text", text |-> t]

DurationInput(d) == [variant |-> "Duration", duration |-> d]

\* impl From<i32>, From<isize>, From<&str>, From<String>, From<Duration>
\* for SleepInput.  An input is [type, value].
Into(input) ==
    CASE input.type \in {"i32", "isize"}  -> Number(input.value)
      [] input.type \in {"&str", "String"} -> Text(input.value)
      [] input.type = "Duration"           -> DurationInput(input.value)

\* A policy that never skips.
should_sleep_Always(self) == TRUE

\* pub fn should_sleep(&self) -> bool
should_sleep(self) ==
    CASE self.variant = "Number"   -> IsPositive(self.n)
      [] self.variant = "Text"     ->
            LET n == ParseIsize(self.text)
            IN  IF n.ok THEN IsPositive(n) ELSE TRUE
      [] self.variant = "Duration" -> ~DurationIsZero(self.duration)

\* pub fn to_duration(&self) -> Result<Duration>
to_duration(self, checks) ==
    CASE self.variant = "Number"   ->
            IF ~IsPositive(self.n) THEN Ok(DurationZERO)
            ELSE Ok(DurationFromMillis(self.n.mag))
      [] self.variant = "Text"     -> parse_sleep_duration(self.text, checks)
      [] self.variant = "Duration" -> Ok(self.duration)

-----------------------------------------------------------------------------
(* The state machine: one call of smart_sleep or of parse_sleep_duration.  *)
(*   overflow_checks  the build panics on integer overflow (debug) or not  *)
(*   op, arg          the function called and its argument                 *)
(*   pc               where the call stands                                *)
(*   sleep_input      smart_sleep's local `sleep_input`                    *)
(*   duration         smart_sleep's local `duration`                       *)
(*   ret              what the call returned: Ok, Err, or Panic            *)
(*   slept            the durations std::thread::sleep was called with     *)

Unset == [kind |-> "Unset"]

\* The value ().
Unit == [unit |-> TRUE]

\* let sleep_input = input.into();
SmartSleepEnter ==
    /\ op = "smart_sleep" /\ pc = "call"
    /\ sleep_input' = Into(arg)
    /\ pc' = "should_sleep"
    /\ UNCHANGED <<overflow_checks, op, arg, duration, ret, slept>>

\* if sleep_input.should_sleep() { ... }
ShouldSleep ==
    /\ pc = "should_sleep"
    /\ pc' = IF should_sleep(sleep_input) THEN "to_duration" ELSE "return"
    /\ UNCHANGED <<overflow_checks, op, arg, sleep_input, duration, ret, slept>>

\* let duration = sleep_input.to_duration()?;
ToDuration ==
    /\ pc = "to_duration"
    /\ LET r == to_duration(sleep_input, overflow_checks)
       IN  IF r.kind = "Ok"
           THEN /\ duration' = r.value
                /\ pc' = "sleep"
                /\ ret' = ret
           ELSE /\ duration' = duration
                /\ pc' = "done"
                /\ ret' = r
    /\ UNCHANGED <<overflow_checks, op, arg, sleep_input, slept>>

\* std::thread::sleep(duration);
ThreadSleep ==
    /\ pc = "sleep"
    /\ slept' = Append(slept, duration)
    /\ pc' = "return"
    /\ UNCHANGED <<overflow_checks, op, arg, sleep_input, duration, ret>>

\* Ok(())
Return ==
    /\ pc = "return"
    /\ ret' = Ok(Unit)
    /\ pc' = "done"
    /\ UNCHANGED <<overflow_checks, op, arg, sleep_input, duration, slept>>

\* A direct call of the public parse_sleep_duration.
ParseSleepDuration ==
    /\ op = "parse_sleep_duration" /\ pc = "call"
    /\ ret' = parse_sleep_duration(arg, overflow_checks)
    /\ pc' = "done"
    /\ UNCHANGED <<overflow_checks, op, arg, sleep_input, duration, slept>>

Next ==
    \/ SmartSleepEnter
    \/ ShouldSleep
    \/ ToDuration
    \/ ThreadSleep
    \/ Return
    \/ ParseSleepDuration

-----------------------------------------------------------------------------
(* Inputs.  A text is a concatenation of at most MaxPieces pieces of a     *)
(* piece set; each specification below draws its texts from one set.       *)

MaxPieces == 3

RECURSIVE PieceTexts(_, _)
PieceTexts(P, n) ==
    IF n = 0 THEN {<< >>}
    ELSE LET prev == PieceTexts(P, n - 1)
         IN  prev \cup {t \o p : t \in prev, p \in P}

GeneralPieces ==
    {<<"0">>,
     <<"5">>,
     <<"-">>,
     <<" ">>,
     <<"s">>,
     <<"a", "b", "c">>,
     <<".">>,
     <<"2", "M">>}

IntPieces ==
    {<<" ">>,
     <<"-">>,
     <<"+">>,
     <<"0">>,
     <<"7">>,
     <<"8">>,
     <<"9", "2", "2", "3", "3", "7", "2", "0", "3", "6", "8", "5", "4", "7", "7", "5", "8", "0">>,
     <<"S">>}

MultiPieces ==
    {<<"1", "h">>,
     <<"2", "m">>,
     <<"3", "s">>,
     <<"5", "0", "0", "m", "s">>,
     <<"1", "x">>,
     <<" ">>,
     <<"-">>,
     <<"5", "1", "2", "4", "0", "9", "5", "5", "7", "6", "0", "3", "1", "h">>}

FracPieces ==
    {<<"1", ".", "5">>,
     <<".", "5">>,
     <<"0">>,
     <<"1", ".", "0", "0", "1">>,
     <<" ">>,
     <<"s">>,
     <<"m">>,
     <<"M", "i", "n">>,
     <<"m", "s">>,
     <<"h">>}

ZeroPieces ==
    {<<"0", "s">>,
     <<"0", "m", "s">>,
     <<"0", "m">>,
     <<"0", "h">>,
     <<"0">>,
     <<" ">>,
     <<"0", "0", " ", "H", "o", "u", "r", "s">>,
     <<"\t">>,
     <<"1", "s">>}

\* Unit expressions <lead><k><gap><spelling>, the spelling in its case variants.
UnitSpellings == MillisAlt \cup SecondsAlt \cup MinutesAlt \cup HoursAlt

\* Spellings of at most MaxCaseLen letters are drawn in every case variant;
\* longer ones in lower case, upper case and capitalised.
MaxCaseLen == 3

ToUpperChar(c) ==
    IF IsLower(c) THEN UpperChars[CHOOSE i \in 1..26 : LowerChars[i] = c] ELSE c

CaseVariants(sp) ==
    LET masks == IF Len(sp) <= MaxCaseLen THEN SUBSET (1..Len(sp))
                 ELSE {{}, 1..Len(sp), {1}}
    IN  {[i \in 1..Len(sp) |-> IF i \in up THEN ToUpperChar(sp[i]) ELSE sp[i]]
           : up \in masks}

UnitMagnitudes ==
    {<<"5">>,
     <<"0", "0", "7">>,
     <<"9", "0", "0", "7", "1", "9", "9", "2", "5", "4", "7", "4", "0">>,
     <<"1", "5", "0", "1", "1", "9", "9", "8", "7", "5", "7", "9">>,
     <<"2", "5", "0", "1", "9", "9", "9", "7", "9", "2">>,
     <<"9", "0", "0", "7", "1", "9", "9", "2", "5", "4", "7", "4", "0", "9", "9", "2">>,
     <<"9", "0", "0", "7", "1", "9", "9", "2", "5", "4", "7", "4", "0", "9", "9", "3">>,
     <<"9", "2", "2", "3", "3", "7", "2", "0", "3", "6", "8", "5", "4", "7", "7", "5", "8", "0", "8">>}

UnitGaps == {<< >>, <<" ">>, <<"\t", " ">>}

UnitTexts ==
    {k \o gap \o v : k \in UnitMagnitudes, gap \in UnitGaps,
                     v \in UNION {CaseVariants(sp) : sp \in UnitSpellings}}
    \cup {<<" ">> \o k \o sp \o <<" ">> : k \in UnitMagnitudes, sp \in UnitSpellings}

NumberInputs ==
    {[type |-> "i32",   value |-> SignedInt(TRUE, <<5, 0>>)],
     [type |-> "i32",   value |-> SignedInt(FALSE, << >>)],
     [type |-> "i32",   value |-> SignedInt(FALSE, <<1>>)],
     [type |-> "isize", value |-> SignedInt(TRUE, ISIZE_MIN_MAG)],
     [type |-> "isize", value |-> SignedInt(FALSE, << >>)],
     [type |-> "isize", value |-> SignedInt(FALSE, <<1, 0, 0>>)],
     [type |-> "isize", value |-> SignedInt(FALSE, ISIZE_MAX)]}

DurationInputs ==
    {[type |-> "Duration", value |-> d] :
        d \in {DurationZERO, [secs |-> << >>, nanos |-> 1],
               DurationFromMillis(<<1>>), [secs |-> <<1>>, nanos |-> 500000000]}}

\* The calls: parse_sleep_duration(t) and smart_sleep(t) for each text t,
\* smart_sleep(String), smart_sleep(i32 | isize), smart_sleep(Duration).
InitWith(texts) ==
    /\ overflow_checks \in BOOLEAN
    /\ \/ op = "parse_sleep_duration" /\ arg \in texts
       \/ op = "smart_sleep" /\ \E t \in texts : arg = [type |-> "&str", value |-> t]
       \/ op = "smart_sleep" /\ arg = [type |-> "String", value |-> <<"1">>]
       \/ op = "smart_sleep" /\ arg \in NumberInputs
       \/ op = "smart_sleep" /\ arg \in DurationInputs
    /\ pc = "call"
    /\ sleep_input = Unset
    /\ duration = Unset
    /\ ret = Unset
    /\ slept = << >>

Init == InitWith(PieceTexts(GeneralPieces, MaxPieces))

Spec == Init /\ [][Next]_vars

InitInt == InitWith(PieceTexts(IntPieces, MaxPieces))

SpecInt == InitInt /\ [][Next]_vars

InitUnit == InitWith(UnitTexts)

SpecUnit == InitUnit /\ [][Next]_vars

InitMulti == InitWith(PieceTexts(MultiPieces, MaxPieces))

SpecMulti == InitMulti /\ [][Next]_vars

InitFrac == InitWith(PieceTexts(FracPieces, MaxPieces))

SpecFrac == InitFrac /\ [][Next]_vars

InitZero == InitWith(PieceTexts(ZeroPieces, MaxPieces))

SpecZero == InitZero /\ [][Next]_vars

-----------------------------------------------------------------------------
(* The grammar the claims speak of, stated on the text itself.             *)

ParseDone == op = "parse_sleep_duration" /\ pc = "done"

SmartSleepDone == op = "smart_sleep" /\ pc = "done"

\* The text under parse: the argument trimmed and lowercased.
Normalized == ToLowercase(Trim(arg))

IsDigits(s) == s # << >> /\ \A i \in 1..Len(s) : IsDigit(s[i])

IsBlank(s) == \A i \in 1..Len(s) : IsWhitespace(s[i])

StartsWith(s, x) == Len(x) <= Len(s) /\ SubSeq(s, 1, Len(x)) = x

\* An optional sign and digits: [neg, mag], or none.
SignedIntegers(s) ==
    {[neg |-> sign = <<"-">>, mag |-> DigitsToNum(SubSeq(s, Len(sign) + 1, Len(s)))] :
        sign \in {x \in {<< >>, <<"+">>, <<"-">>} :
                    /\ StartsWith(s, x)
                    /\ IsDigits(SubSeq(s, Len(x) + 1, Len(s)))}}

InIsizeRange(n) ==
    IF n.neg THEN Leq(n.mag, ISIZE_MIN_MAG) ELSE Leq(n.mag, ISIZE_MAX)

\* The unit table of the specification: milliseconds per unit.
UnitTable ==
    <<"m", "s">> :> 1 @@ <<"m", "i", "l", "l", "i">> :> 1 @@ <<"m", "i", "l", "l", "i", "s">> :> 1 @@ <<"m", "i", "l", "l", "i", "s", "e", "c", "o", "n", "d">> :> 1 @@ <<"m", "i", "l", "l", "i", "s", "e", "c", "o", "n", "d", "s">> :> 1
    @@ <<"s">> :> 1000 @@ <<"s", "e", "c">> :> 1000 @@ <<"s", "e", "c", "o", "n", "d">> :> 1000 @@ <<"s", "e", "c", "o", "n", "d", "s">> :> 1000
    @@ <<"m">> :> 60000 @@ <<"m", "i", "n">> :> 60000 @@ <<"m", "i", "n", "u", "t", "e">> :> 60000 @@ <<"m", "i", "n", "u", "t", "e", "s">> :> 60000
    @@ <<"h">> :> 3600000 @@ <<"h", "r">> :> 3600000 @@ <<"h", "o", "u", "r">> :> 3600000 @@ <<"h", "o", "u", "r", "s">> :> 3600000

\* <number><optional whitespace><unit spelling>, the whole text:
\* the decompositions [number, unit] (at most one).
UnitSplits(s) ==
    {[number |-> SubSeq(s, 1, i), unit |-> SubSeq(s, j + 1, Len(s))] :
        <<i, j>> \in {x \in (1..Len(s)) \X (1..Len(s)) :
                        /\ x[1] <= x[2]
                        /\ IsBlank(SubSeq(s, x[1] + 1, x[2]))
                        /\ SubSeq(s, x[2] + 1, Len(s)) \in DOMAIN UnitTable
                        /\ ~IsWhitespace(s[x[1]])}}

\* <k><unit> with k written in digits.
IntegerUnitExprs(s) == {u \in UnitSplits(s) : IsDigits(u.number)}

\* <magnitude><unit>, the magnitude with a decimal point: digits (possibly
\* none), a point, digits.  [whole, frac, unit]
FractionalUnitExprs(s) ==
    {[whole |-> SubSeq(u.number, 1, d - 1),
      frac  |-> SubSeq(u.number, d + 1, Len(u.number)),
      unit  |-> u.unit] :
        <<u, d>> \in {x \in UnitSplits(s) \X (1..Len(s)) :
                        /\ x[2] <= Len(x[1].number)
                        /\ x[1].number[x[2]] = "."
                        /\ IsDigits(SubSeq(x[1].number, x[2] + 1, Len(x[1].number)))
                        /\ \/ x[2] = 1
                           \/ IsDigits(SubSeq(x[1].number, 1, x[2] - 1))}}

-----------------------------------------------------------------------------
(* C1: a text that, trimmed and lowercased, is a signed integer n within   *)
(* isize parses to n milliseconds when n > 0 and to the zero duration when *)
(* n <= 0; no later rule decides such a text.                              *)
C1_BareInteger ==
    ParseDone =>
        \A n \in SignedIntegers(Normalized) :
            InIsizeRange(n) =>
                ret = IF ~n.neg /\ n.mag # << >>
                      THEN Ok(DurationFromMillis(n.mag))
                      ELSE Ok(DurationZERO)

\* isize::MAX, written with surrounding whitespace, parsed to isize::MAX ms;
C1_Witness ==
    /\ ParseDone
    /\ Len(Normalized) < Len(arg)
    /\ \E n \in SignedIntegers(Normalized) : ~n.neg /\ n.mag = ISIZE_MAX
    /\ ret = Ok(DurationFromMillis(ISIZE_MAX))

-----------------------------------------------------------------------------
(* C2 as stated: "<k><spelling>", k a positive integer, any case, optional *)
(* whitespace between, parses to exactly k * factor milliseconds.          *)
C2_UnitRoundTrip ==
    ParseDone =>
        \A u \in IntegerUnitExprs(Normalized) :
            LET k == DigitsToNum(u.number)
            IN  k # << >> =>
                    ret = Ok(DurationFromMillis(MulSmall(k, UnitTable[u.unit])))

(* C2 amended: the same for every k with k * factor <= 2^53, the range in  *)
(* which the f64 product of the single-unit rule is exact.                 *)
C2_UnitRoundTripExact ==
    ParseDone =>
        \A u \in IntegerUnitExprs(Normalized) :
            LET k == DigitsToNum(u.number)
                millis == MulSmall(k, UnitTable[u.unit])
            IN  (k # << >> /\ Leq(millis, TwoPow53)) =>
                    ret = Ok(DurationFromMillis(millis))

\* "9007199254740992 MS" (k = 2^53, upper case, a gap) parsed to 2^53 ms.
C2_Witness ==
    /\ ParseDone
    /\ arg # Normalized
    /\ \E u \in IntegerUnitExprs(Normalized) :
          /\ DigitsToNum(u.number) = TwoPow53
          /\ Len(u.number) + Len(u.unit) < Len(Normalized)
    /\ ret = Ok(DurationFromMillis(TwoPow53))

-----------------------------------------------------------------------------
(* Runs of a text: a maximal run of digits, optional whitespace, a maximal *)
(* run of letters.  RunAt(s, i) is the run whose digits start at i, with   *)
(* the position that follows it.                                           *)

RunAt(s, i) ==
    {[number |-> SubSeq(s, i, j), unit |-> SubSeq(s, k + 1, l), next |-> l + 1] :
        <<j, k, l>> \in {x \in (i..Len(s)) \X (i..Len(s)) \X (i..Len(s)) :
            /\ x[1] <= x[2] /\ x[2] < x[3]
            /\ IsDigits(SubSeq(s, i, x[1]))
            /\ (i = 1 \/ ~IsDigit(s[i - 1]))
            /\ ~IsDigit(s[x[1] + 1])
            /\ IsBlank(SubSeq(s, x[1] + 1, x[2]))
            /\ \A n \in (x[2] + 1)..x[3] : IsLower(s[n])
            /\ (x[3] = Len(s) \/ ~IsLower(s[x[3] + 1]))}}

RecognizedRunAt(s, i) == {r \in RunAt(s, i) : r.unit \in DOMAIN UnitTable}

HasRecognizedRun(s) == \E i \in 1..Len(s) : RecognizedRunAt(s, i) # {}

\* The sum of value * factor over the recognized runs that start at i or later.
RECURSIVE SumRuns(_, _)
SumRuns(s, i) ==
    IF i > Len(s) THEN << >>
    ELSE LET here == RecognizedRunAt(s, i)
             rest == SumRuns(s, i + 1)
         IN  IF here = {} THEN rest
             ELSE LET r == CHOOSE r \in here : TRUE
                  IN  Add(MulSmall(DigitsToNum(r.number), UnitTable[r.unit]), rest)

\* No bare-integer or single-unit rule takes the whole text.
NoSingleRule(s) ==
    /\ s # << >>
    /\ \A n \in SignedIntegers(s) : ~InIsizeRange(n)
    /\ IntegerUnitExprs(s) = {}
    /\ \A f \in FractionalUnitExprs(s) : UnitTable[f.unit] \notin {1000, 60000}

(* C3: when no bare-integer or single-unit rule takes the whole text and   *)
(* it holds a recognized run, the result is the sum of value * factor over *)
(* every recognized run; unrecognized runs add nothing and raise no error. *)
C3_MultiUnitSum ==
    (ParseDone /\ NoSingleRule(Normalized) /\ HasRecognizedRun(Normalized)) =>
        ret = Ok(DurationFromMillis(SumRuns(Normalized, 1)))

\* Some recognized run with a value and a total past u64::MAX is what
\* makes C3 fail: "-5124095576031h" (5124095576031 * 3600000 > 2^64 - 1).
C3_OverflowingRun ==
    /\ ParseDone /\ NoSingleRule(Normalized) /\ HasRecognizedRun(Normalized)
    /\ Less(U64_MAX, SumRuns(Normalized, 1))

-----------------------------------------------------------------------------
\* The f64 product of the fractional rule, cast to u64: magnitude * factor
\* in floating point, truncated to whole milliseconds.
FractionalMillis(f) ==
    F64ToU64(F64Mul(F64Parse(DigitsToNum(f.whole \o f.frac), Len(f.frac)),
                    UnitTable[f.unit]))

\* What the multi-unit scan would make of the digits after the point.
ScanOfFraction(f) == MulSmall(DigitsToNum(f.frac), UnitTable[f.unit])

(* C4: a fractional magnitude with a second or minute unit is decided by   *)
(* the fractional single-unit rule: the result is magnitude * factor       *)
(* truncated to whole milliseconds, never what the multi-unit scan would   *)
(* give for the digits after the point.                                    *)
C4_FractionalBeforeScan ==
    ParseDone =>
        \A f \in FractionalUnitExprs(Normalized) :
            UnitTable[f.unit] \in {1000, 60000} =>
                /\ ret = Ok(DurationFromMillis(FractionalMillis(f)))
                /\ ScanOfFraction(f) # FractionalMillis(f)
                      => ret # Ok(DurationFromMillis(ScanOfFraction(f)))

\* "1.5s" parsed to 1500 ms, where the scan of "5s" would give 5000 ms.
C4_Witness ==
    /\ ParseDone
    /\ \E f \in FractionalUnitExprs(Normalized) :
          /\ f.whole = <<"1">> /\ f.frac = <<"5">> /\ f.unit = <<"s">>
          /\ ScanOfFraction(f) = <<5, 0, 0, 0>>
    /\ ret = Ok(DurationFromMillis(<<1, 5, 0, 0>>))

(* C5: a fractional magnitude with a millisecond or hour unit fails with   *)
(* InvalidDuration; it is never read by the integer-only multi-unit scan.  *)
C5_FractionalMsHourRejected ==
    ParseDone =>
        \A f \in FractionalUnitExprs(Normalized) :
            UnitTable[f.unit] \in {1, 3600000} =>
                ret.kind = "Err" /\ ret.error = "InvalidDuration"

-----------------------------------------------------------------------------
\* From position i on, the text is runs of <zeros><unit>, whitespace allowed
\* between them, up to its end.
RECURSIVE ZeroRunsFrom(_, _)
ZeroRunsFrom(s, i) ==
    IF i > Len(s) THEN TRUE
    ELSE IF IsWhitespace(s[i]) THEN ZeroRunsFrom(s, i + 1)
    ELSE \E r \in RecognizedRunAt(s, i) :
            DigitsToNum(r.number) = << >> /\ ZeroRunsFrom(s, r.next)

\* "0", or a single-unit or multi-unit expression whose magnitudes are all 0.
AllZeroExpr(s) ==
    \/ IsDigits(s) /\ DigitsToNum(s) = << >>
    \/ s # << >> /\ ZeroRunsFrom(s, 1)

(* C6: the empty text, a whitespace-only text, and every expression whose  *)
(* magnitudes are all 0 parse to Ok(zero duration).                        *)
C6_ZeroNormalizes ==
    (ParseDone /\ (IsBlank(arg) \/ AllZeroExpr(Normalized))) =>
        ret = Ok(DurationZERO)

\* "0h0m0s"-like: three zero runs, decided by the multi-unit scan.
C6_Witness ==
    /\ ParseDone
    /\ AllZeroExpr(Normalized)
    /\ Cardinality({i \in 1..Len(Normalized) : RecognizedRunAt(Normalized, i) # {}}) = 3
    /\ ret = Ok(DurationZERO)

-----------------------------------------------------------------------------
\* None of the rules matches: no bare integer, no single unit (integer or
\* fractional), no recognized run.
NoRuleMatches(s) == NoSingleRule(s) /\ ~HasRecognizedRun(s)

\* The message the error carries for the normalized text s.
MessageFor(s) ==
    <<"I", "n", "v", "a", "l", "i", "d", " ", "s", "l", "e", "e", "p", " ", "d", "u", "r", "a", "t", "i", "o", "n", " ", "f", "o", "r", "m", "a", "t", ":", " ", "'">>
    \o s \o <<"'">>

-----------------------------------------------------------------------------
\* The inputs smart_sleep skips: a Number <= 0, a Text that is (untrimmed) a
\* signed integer <= 0 within isize, a zero Duration.
Skips(input) ==
    CASE input.type \in {"i32", "isize"}   -> input.value.neg \/ input.value.mag = << >>
      [] input.type \in {"&str", "String"} ->
            \E n \in SignedIntegers(input.value) :
                InIsizeRange(n) /\ (n.neg \/ n.mag = << >>)
      [] input.type = "Duration"           -> input.value = DurationZERO

(* C8: smart_sleep returns Ok without any blocking wait exactly when the   *)
(* input is skipped; otherwise the input is resolved with to_duration and, *)
(* if that gives Ok(d), the blocking wait is invoked exactly once, with d  *)
(* (zero included); if it fails, there is no wait and the failure returns. *)
C8_SkipPolicy ==
    SmartSleepDone =>
        LET r == to_duration(Into(arg), overflow_checks)
        IN  /\ (slept = << >> /\ ret = Ok(Unit)) <=> Skips(arg)
            /\ ~Skips(arg) =>
                  /\ r.kind = "Ok"  => slept = <<r.value>> /\ ret = Ok(Unit)
                  /\ r.kind = "Err" => slept = << >> /\ ret = r

\* smart_sleep("0s") waited once, for the zero duration.
C8_Witness ==
    /\ SmartSleepDone
    /\ arg.type = "&str" /\ arg.value = <<"0", "s">>
    /\ ~Skips(arg)
    /\ slept = <<DurationZERO>>
    /\ ret = Ok(Unit)

-----------------------------------------------------------------------------
\* A '-' sign followed at once by <digits><recognized unit>.
NegativeUnitText(s) ==
    s # << >> /\ Head(s) = "-" /\ RecognizedRunAt(s, 2) # {}

(* C9: for a text written as a negative value with a unit, the parser      *)
(* never returns a positive duration and smart_sleep never waits for one.  *)
C9_NegativeNeverPositive ==
    /\ (ParseDone /\ NegativeUnitText(Normalized)) =>
          (ret.kind = "Ok" => DurationIsZero(ret.value))
    /\ (op = "smart_sleep" /\ arg.type \in {"&str", "String"}
          /\ NegativeUnitText(ToLowercase(Trim(arg.value)))) =>
          \A i \in 1..Len(slept) : DurationIsZero(slept[i])

(* C10: smart_sleep does not panic: every call ends in Ok or Err, also in  *)
(* a build that checks arithmetic overflow.                                *)
C10_NoPanic ==
    SmartSleepDone => ret.kind \in {"Ok", "Err"}

====
